---- MODULE Spec2Model ----
(***************************************************************************)
(* Model of zaphod.py's "revise" subcommand (Zaphod.revise,                *)
(* Zaphod.get_modified_latex_files, Zaphod.generate_pdf,                   *)
(* Zaphod.save_changes).                                                   *)
(*                                                                         *)
(* Text is modelled as a sequence of tokens.  A token is one of the        *)
(* literal strings the program's regular expressions look for (the four    *)
(* latexdiff markers, the two inline wrapping commands, the two preamble   *)
(* comment lines), a brace, a whitespace character, or a word of ordinary  *)
(* text.  Offsets (head, tail, del_start, add_start) are 0-based token     *)
(* offsets, used exactly as the program uses its character offsets.        *)
(* An answer typed at a prompt is a sequence of characters.                *)
(***************************************************************************)
EXTENDS Integers, Sequences, FiniteSets, TLC

VARIABLES
    disk,             \* file name -> text of the file in the working tree
    citations,        \* optionsDict['citations']
    filelist,         \* self.filelist
    modifiedfiles,    \* self.modifiedfiles
    pc,               \* position of the control flow
    userinput,        \* the last line returned by input()
    filenumber,       \* revise: filenumber after int()
    filetorevise,     \* revise: filetorevise
    filetext,         \* revise: filetext
    revisedfiletext,  \* revise: revisedfiletext
    head,             \* revise: head
    tail,             \* revise: tail
    del_start,        \* revise: del_start
    add_start,        \* revise: add_start
    deletion,         \* revise: deletion
    addition,         \* revise: addition
    exception,        \* the uncaught exception that ended the process, if any
    calls,            \* the subprocess calls made so far, in order
    decided,          \* history: the Y/N decisions taken in the current file
    quit,             \* history: the prompt a Q was answered at, "none" before
    disk0,            \* history: the working tree when the run started
    opened,           \* history: the files revise has opened for reading, in order
    written,          \* history: the files revise has opened for writing, in order
    starts            \* history: offsets of the begin markers found in the current file

vars == <<disk, citations, filelist, modifiedfiles, pc, userinput, filenumber,
          filetorevise, filetext, revisedfiletext, head, tail, del_start,
          add_start, deletion, addition, exception, calls, decided, quit,
          disk0, opened, written, starts>>

-----------------------------------------------------------------------------
(* Bounds of the model *)

\* number of .tex files in the working tree of a batch run
NumFiles == 2

\* number of segments a generated buffer is built from
MaxSegs == 3

-----------------------------------------------------------------------------
(* Tokens *)

rpDelbegin == "\\DIFdelbegin"
rpDelend == "\\DIFdelend"
rpAddbegin == "\\DIFaddbegin"
rpAddend == "\\DIFaddend"
DIFdelOpen == "\\DIFdel{"
DIFaddOpen == "\\DIFadd{"
CloseBrace == "}"
PreambleStart == "%DIF PREAMBLE EXTENSION ADDED BY LATEXDIFF"
PreambleEnd == "%DIF END PREAMBLE EXTENSION ADDED BY LATEXDIFF"
Newline == "\n"

\* the characters the regular expression class \s matches
IsSpace(t) == t \in {" ", Newline}

-----------------------------------------------------------------------------
(* Python slices and regular expression searches *)

Min(a, b) == IF a < b THEN a ELSE b

\* s[a:b]
Slice(s, a, b) ==
    LET lo == Min(a, Len(s))
        hi == Min(b, Len(s))
    IN  IF lo >= hi THEN << >> ELSE SubSeq(s, lo + 1, hi)

\* s[a:]
From(s, a) == Slice(s, a, Len(s))

\* re.search(lit + r'\s*', s) is not None
Found(lit, s) == \E i \in 1..Len(s) : s[i] = lit

\* re.search(lit + r'\s*', s).start()
MatchStart(lit, s) ==
    (CHOOSE i \in 1..Len(s) : s[i] = lit /\ \A j \in 1..(i - 1) : s[j] # lit) - 1

\* the length of the run of whitespace that starts at offset a of s
RECURSIVE SpaceRun(_, _)
SpaceRun(s, a) ==
    IF a < Len(s) /\ IsSpace(s[a + 1]) THEN 1 + SpaceRun(s, a + 1) ELSE 0

\* the same match without the trailing \s*
MatchEndNoSpace(lit, s) == MatchStart(lit, s) + 1

\* re.search(lit + r'\s*', s).end()
MatchEnd(lit, s) ==
    LET e == MatchStart(lit, s) + 1 IN e + SpaceRun(s, e)

\* index of the first closing brace of s, 0 when there is none
FirstClose(s) ==
    IF \E i \in 1..Len(s) : s[i] = CloseBrace
    THEN CHOOSE i \in 1..Len(s) :
            s[i] = CloseBrace /\ \A j \in 1..(i - 1) : s[j] # CloseBrace
    ELSE 0

\* a substitution that leaves the text as it is
UnwrapNothing(open, s) == s

\* re.sub(open + r'(.*?)\}', r'\1', s, flags=re.DOTALL)
RECURSIVE Unwrap(_, _)
Unwrap(open, s) ==
    IF s = << >> THEN << >>
    ELSE IF Head(s) = open /\ FirstClose(Tail(s)) > 0
         THEN LET k == FirstClose(Tail(s))
              IN  SubSeq(Tail(s), 1, k - 1) \o Unwrap(open, From(Tail(s), k))
         ELSE <<Head(s)>> \o Unwrap(open, Tail(s))

\* the last offset of a PreambleEnd token followed by a newline, after offset a
LastPreambleEnd(s, a) ==
    LET ends == {i \in (a + 1)..(Len(s) - 1) :
                    s[i] = PreambleEnd /\ s[i + 1] = Newline}
    IN  IF ends = {} THEN 0 ELSE CHOOSE i \in ends : \A j \in ends : j <= i

\* re.sub(pattern=self.rpPreamble, repl='', string=s, flags=re.DOTALL):
\* the match is greedy, from the first start comment through the last end
\* comment and the newline after it
StripPreamble(s) ==
    IF ~Found(PreambleStart, s) THEN s
    ELSE LET i == MatchStart(PreambleStart, s) + 1
             j == LastPreambleEnd(s, i)
         IN  IF j = 0 THEN s
             ELSE SubSeq(s, 1, i - 1) \o From(s, j + 1)

-----------------------------------------------------------------------------
(* Answers typed at the prompts *)

Letters == {"Y", "y", "N", "n", "Q", "q", "x"}
DecimalChars == {"0", "1", "2"}
\* "sup2" is the character U+00B2 (superscript two): str.isdigit() is true of
\* it and int() raises ValueError on it
DigitChars == DecimalChars \cup {"sup2"}

Answers == { <<"Y">>, <<"y">>, <<"N">>, <<"n">>, <<"Q">>, <<"q">>, <<"x">>,
             << >>, <<"0">>, <<"1">>, <<"2">>, <<"sup2">> }

\* the value of userinput before any input() call has returned
NoInput == <<"no input">>

Yes == { <<"Y">>, <<"y">> }
No == { <<"N">>, <<"n">> }
Quit == { <<"Q">>, <<"q">> }

\* str.isalpha()
isalpha(s) == Len(s) > 0 /\ \A i \in 1..Len(s) : s[i] \in Letters

\* str.isdigit()
isdigit(s) == Len(s) > 0 /\ \A i \in 1..Len(s) : s[i] \in DigitChars

\* int(s) raises ValueError
IntRaises(s) == Len(s) = 0 \/ \E i \in 1..Len(s) : s[i] \notin DecimalChars

DigitVal(c) == CASE c = "0" -> 0 [] c = "1" -> 1 [] c = "2" -> 2

\* int(s)
RECURSIVE int(_)
int(s) ==
    IF Len(s) = 0 THEN 0
    ELSE 10 * int(SubSeq(s, 1, Len(s) - 1)) + DigitVal(s[Len(s)])

-----------------------------------------------------------------------------
(* Documents *)

Files == 1..NumFiles

ScenarioAdd == <<"A", " ", rpAddbegin, " ", DIFaddOpen, "new", CloseBrace, " ",
                 rpAddend, " ", "B">>
ScenarioDel == <<"A", " ", rpDelbegin, " ", DIFdelOpen, "old", CloseBrace, " ",
                 rpDelend, " ", "B">>
DocPlain == <<"A", " ", "B">>
DocTwo == <<"x", rpDelbegin, DIFdelOpen, "old", CloseBrace, rpDelend, " ",
            rpAddbegin, Newline, DIFaddOpen, "new", CloseBrace, rpAddend, "y">>
DocMalformed == <<rpDelbegin, "old", rpDelend, "x", rpAddbegin, "new">>
DocPreamble == <<PreambleStart, Newline, rpAddbegin, PreambleEnd, Newline,
                 "A", rpDelbegin, "old", rpDelend>>
DocPreambleOnly == <<"A", PreambleStart, Newline, rpAddbegin, "p", rpAddend,
                     PreambleEnd, Newline, "B">>
DocNested == <<"A", rpAddbegin, DIFaddOpen, "c", "{", "d", CloseBrace, "e",
               CloseBrace, rpAddend, "B">>
DocTwoPreambles == <<PreambleStart, Newline, "p", PreambleEnd, Newline, "A",
                     rpAddbegin, "new", rpAddend, PreambleStart, Newline,
                     PreambleEnd, Newline, "B">>

\* the documents a file of a batch run may hold
Docs == {ScenarioAdd, DocPlain, DocTwo, DocMalformed, DocPreamble,
         DocPreambleOnly}

\* the segments generated buffers are built from
Segments == { <<"a">>, <<" ">>,
              <<rpAddbegin, " ", DIFaddOpen, "b", CloseBrace, rpAddend, Newline>>,
              <<rpAddbegin, "c", "{", "d", CloseBrace, rpAddend>>,
              <<rpDelbegin, DIFdelOpen, "e", CloseBrace, " ", rpDelend, " ">>,
              <<rpDelbegin, " ", DIFaddOpen, "g", CloseBrace, rpDelend>>,
              <<rpAddbegin>>, <<rpDelend>> }

RECURSIVE Flatten(_)
Flatten(q) == IF q = << >> THEN << >> ELSE Head(q) \o Flatten(Tail(q))

Buffers ==
    UNION { {Flatten(q) : q \in [1..n -> Segments]} : n \in 0..MaxSegs }
    \cup {ScenarioAdd, ScenarioDel, DocNested, DocTwoPreambles}

-----------------------------------------------------------------------------
(* Initial states *)

\* Zaphod.__init__, and the locals of revise before their first assignment
InitCommon ==
    /\ citations \in BOOLEAN
    /\ modifiedfiles = << >>
    /\ userinput = NoInput
    /\ filetorevise = 0
    /\ filetext = << >>
    /\ revisedfiletext = << >>
    /\ head = 0
    /\ tail = 0
    /\ del_start = 0
    /\ add_start = 0
    /\ deletion = << >>
    /\ addition = << >>
    /\ exception = "none"
    /\ calls = << >>
    /\ decided = << >>
    /\ quit = "none"
    /\ disk0 = disk
    /\ opened = << >>
    /\ written = << >>
    /\ starts = << >>

\* a batch run: revise is about to start on a working tree of NumFiles files
Init ==
    /\ disk \in [Files -> Docs]
    /\ filelist = << >>
    /\ filenumber = 0
    /\ pc = "start"
    /\ InitCommon

\* the resolution loop applied to one buffer: the file has just been picked
InitResolve ==
    /\ disk \in [{1} -> Buffers]
    /\ filelist = <<1>>
    /\ filenumber = 1
    /\ pc = "read"
    /\ citations = FALSE
    /\ InitCommon

-----------------------------------------------------------------------------
(* Helpers of the control flow *)

\* a search that returns offsets from the start of the text
BeginStartAbsolute(rp, text, h) ==
    IF Found(rp, From(text, h)) THEN MatchStart(rp, From(text, h)) + h
    ELSE Len(text)

\* the offset of the next begin marker as revise computes it: relative to
\* head when there is one, len(filetext) when there is none
BeginStart(rp, text, h) ==
    IF Found(rp, From(text, h)) THEN MatchStart(rp, From(text, h))
    ELSE Len(text)

\* a save_changes that returns when nothing was modified
AfterReviseReturns(mod) == IF Len(mod) > 0 THEN "askPdf" ELSE "pick"

\* a generate_pdf that prompts whatever was modified
AfterReviseAsks(mod) == "askPdf"

\* generate_pdf prompts only when a file was modified; save_changes, which
\* follows every call of generate_pdf, prompts only then too and always ends
\* in sys.exit(0)
AfterRevise(mod) == IF Len(mod) > 0 THEN "askPdf" ELSE "exited"

\* a generate_pdf that ends the run
AfterPdfExits(mod) == "exited"

AfterPdf(mod) == IF Len(mod) > 0 THEN "askCommit" ELSE "exited"

\* list.remove(x): the first occurrence is removed
\* a remove that leaves the list as it is
RemoveNothing(l, x) == l

Remove(l, x) ==
    LET i == CHOOSE k \in 1..Len(l) : l[k] = x /\ \A j \in 1..(k - 1) : l[j] # x
    IN  SubSeq(l, 1, i - 1) \o SubSeq(l, i + 1, Len(l))

Range(l) == {l[i] : i \in 1..Len(l)}

\* a failed search that is swallowed, the file being written as it stands
CrashSwallowed(e) ==
    /\ pc' = IF e = "AttributeError" THEN "write" ELSE "crashed"
    /\ exception' = e

\* an uncaught exception ends the process
Crash(e) ==
    /\ pc' = "crashed"
    /\ exception' = e

-----------------------------------------------------------------------------
(* Zaphod.get_modified_latex_files and the file selection of Zaphod.revise *)

\* a test that looks for deletions only
HasDeletions(text) == Found(rpDelbegin, text)

\* get_modified_latex_files keeps a file when the two begin offsets differ
HasAnnotations(text) ==
    BeginStart(rpAddbegin, text, 0) # BeginStart(rpDelbegin, text, 0)

\* the files of the walk, in its order, that get_modified_latex_files keeps
RECURSIVE ModifiedLatexFiles(_)
ModifiedLatexFiles(n) ==
    IF n = 0 THEN << >>
    ELSE ModifiedLatexFiles(n - 1) \o
         (IF HasAnnotations(StripPreamble(disk[n])) THEN <<n>> ELSE << >>)

\* revise, line 222, and the first test of the outer loop
GetModifiedLatexFiles ==
    /\ pc = "start"
    /\ filelist' = ModifiedLatexFiles(NumFiles)
    /\ pc' = IF Len(filelist') > 0 THEN "pick" ELSE AfterRevise(modifiedfiles)
    /\ UNCHANGED <<disk, citations, modifiedfiles, userinput, filenumber,
                   filetorevise, filetext, revisedfiletext, head, tail,
                   del_start, add_start, deletion, addition, exception, calls,
                   decided, quit, disk0,
                   opened, written, starts>>

\* the file selection prompt, one answer
PickFile ==
    /\ pc = "pick"
    /\ \E ans \in Answers :
        /\ userinput' = ans
        /\ \/ /\ isalpha(ans) /\ ans \in Quit
              /\ quit' = "pick"
              /\ pc' = AfterRevise(modifiedfiles)
              /\ UNCHANGED <<filenumber, exception>>
           \/ /\ ~(isalpha(ans) /\ ans \in Quit)
              /\ isdigit(ans) /\ IntRaises(ans)
              /\ Crash("ValueError")
              /\ UNCHANGED <<filenumber, quit>>
           \/ /\ ~(isalpha(ans) /\ ans \in Quit)
              /\ isdigit(ans) /\ ~IntRaises(ans)
              /\ filenumber' = int(ans)
              /\ pc' = IF int(ans) > 0 /\ int(ans) <= Len(filelist)
                       THEN "read" ELSE "pick"
              /\ UNCHANGED <<quit, exception>>
           \/ /\ ~(isalpha(ans) /\ ans \in Quit)
              /\ ~isdigit(ans)
              /\ UNCHANGED <<pc, filenumber, quit, exception>>
    /\ UNCHANGED <<disk, citations, filelist, modifiedfiles, filetorevise,
                   filetext, revisedfiletext, head, tail, del_start, add_start,
                   deletion, addition, calls, decided, disk0,
                   opened, written, starts>>

\* revise, lines 250-266: the file is read and its preamble extension removed
ReadFile ==
    /\ pc = "read"
    /\ filetorevise' = filelist[filenumber]
    /\ filetext' = StripPreamble(disk[filetorevise'])
    /\ revisedfiletext' = << >>
    /\ head' = 0
    /\ tail' = 0
    /\ decided' = << >>
    /\ opened' = opened \o <<filetorevise'>>
    /\ starts' = << >>
    /\ pc' = "scan"
    /\ UNCHANGED <<disk, citations, filelist, modifiedfiles, userinput,
                   filenumber, del_start, add_start, deletion, addition,
                   exception, calls, quit, disk0, written>>

-----------------------------------------------------------------------------
(* The scan loop of Zaphod.revise *)

\* a break that appends nothing
RemainderDropped(text, h) == << >>

\* line 284: what is appended when no begin marker is left
Remainder(text, h) == From(text, h)

\* lines 267-288: the loop test, the two searches and the choice of a branch
ScanNext ==
    /\ pc = "scan"
    /\ IF head < Len(filetext)
       THEN LET ds == BeginStart(rpDelbegin, filetext, head)
                as == BeginStart(rpAddbegin, filetext, head)
            IN  /\ del_start' = ds
                /\ add_start' = as
                /\ revisedfiletext' =
                       IF as = ds THEN revisedfiletext \o Remainder(filetext, head)
                       ELSE revisedfiletext
                /\ pc' = IF as = ds THEN "write"
                         ELSE IF ds < as THEN "del_head" ELSE "add_head"
       ELSE /\ pc' = "write"
            /\ UNCHANGED <<del_start, add_start, revisedfiletext>>
    /\ UNCHANGED <<disk, citations, filelist, modifiedfiles, userinput,
                   filenumber, filetorevise, filetext, head, tail, deletion,
                   addition, exception, calls, decided, quit, disk0,
                   opened, written, starts>>

\* lines 290-291
DelHead ==
    /\ pc = "del_head"
    /\ head' = del_start + tail
    /\ revisedfiletext' = revisedfiletext \o Slice(filetext, tail, head')
    /\ starts' = starts \o <<head'>>
    /\ pc' = "del_tail"
    /\ UNCHANGED <<disk, citations, filelist, modifiedfiles, userinput,
                   filenumber, filetorevise, filetext, tail, del_start,
                   add_start, deletion, addition, exception, calls, decided,
                   quit, disk0,
                   opened, written>>

\* lines 292-293
DelTail ==
    /\ pc = "del_tail"
    /\ IF Found(rpDelbegin, From(filetext, head))
       THEN /\ tail' = MatchEnd(rpDelbegin, From(filetext, head)) + head
            /\ pc' = "del_end"
            /\ UNCHANGED exception
       ELSE /\ Crash("AttributeError")
            /\ UNCHANGED tail
    /\ UNCHANGED <<disk, citations, filelist, modifiedfiles, userinput,
                   filenumber, filetorevise, filetext, revisedfiletext, head,
                   del_start, add_start, deletion, addition, calls, decided,
                   quit, disk0,
                   opened, written, starts>>

\* lines 294-301: the end marker is searched, the deletion extracted
DelEnd ==
    /\ pc = "del_end"
    /\ IF Found(rpDelend, From(filetext, tail))
       THEN /\ head' = MatchStart(rpDelend, From(filetext, tail)) + tail
            /\ deletion' = Unwrap(DIFdelOpen, Slice(filetext, tail, head'))
            /\ pc' = "askDel"
            /\ UNCHANGED exception
       ELSE /\ Crash("AttributeError")
            /\ UNCHANGED <<head, deletion>>
    /\ UNCHANGED <<disk, citations, filelist, modifiedfiles, userinput,
                   filenumber, filetorevise, filetext, revisedfiletext, tail,
                   del_start, add_start, addition, calls, decided, quit,
                   disk0,
                   opened, written, starts>>

\* what a Y or N answer to "Delete?" appends to revisedfiletext
DelAnswerSwapped(ans, del) == IF ans \in Yes THEN del ELSE << >>

DelAnswerText(ans, del) == IF ans \in Yes THEN << >> ELSE del

\* lines 302-319: the prompt "Delete? Y/N/Q/y/n/q: ", one answer
AskDel ==
    /\ pc = "askDel"
    /\ \E ans \in Answers :
        /\ userinput' = ans
        /\ \/ /\ ~isalpha(ans)
              /\ UNCHANGED <<pc, revisedfiletext, decided, quit>>
           \/ /\ isalpha(ans) /\ ans \in Yes \cup No
              /\ revisedfiletext' = revisedfiletext \o DelAnswerText(ans, deletion)
              /\ decided' = Append(decided, IF ans \in Yes THEN "Y" ELSE "N")
              /\ pc' = "del_adv"
              /\ UNCHANGED quit
           \/ /\ isalpha(ans) /\ ans \in Quit
              /\ quit' = "del"
              /\ pc' = AfterRevise(modifiedfiles)
              /\ UNCHANGED <<revisedfiletext, decided>>
           \/ /\ isalpha(ans) /\ ans \notin Yes \cup No \cup Quit
              /\ UNCHANGED <<pc, revisedfiletext, decided, quit>>
    /\ UNCHANGED <<disk, citations, filelist, modifiedfiles, filenumber,
                   filetorevise, filetext, head, tail, del_start, add_start,
                   deletion, addition, exception, calls, disk0,
                   opened, written, starts>>

\* lines 320-321
DelAdvance ==
    /\ pc = "del_adv"
    /\ head' = MatchEnd(rpDelend, From(filetext, tail)) + tail
    /\ tail' = head'
    /\ pc' = "scan"
    /\ UNCHANGED <<disk, citations, filelist, modifiedfiles, userinput,
                   filenumber, filetorevise, filetext, revisedfiletext,
                   del_start, add_start, deletion, addition, exception, calls,
                   decided, quit, disk0,
                   opened, written, starts>>

\* lines 324-325
AddHead ==
    /\ pc = "add_head"
    /\ head' = add_start + tail
    /\ revisedfiletext' = revisedfiletext \o Slice(filetext, tail, head')
    /\ starts' = starts \o <<head'>>
    /\ pc' = "add_tail"
    /\ UNCHANGED <<disk, citations, filelist, modifiedfiles, userinput,
                   filenumber, filetorevise, filetext, tail, del_start,
                   add_start, deletion, addition, exception, calls, decided,
                   quit, disk0,
                   opened, written>>

\* lines 326-327
AddTail ==
    /\ pc = "add_tail"
    /\ IF Found(rpAddbegin, From(filetext, head))
       THEN /\ tail' = MatchEnd(rpAddbegin, From(filetext, head)) + head
            /\ pc' = "add_end"
            /\ UNCHANGED exception
       ELSE /\ Crash("AttributeError")
            /\ UNCHANGED tail
    /\ UNCHANGED <<disk, citations, filelist, modifiedfiles, userinput,
                   filenumber, filetorevise, filetext, revisedfiletext, head,
                   del_start, add_start, deletion, addition, calls, decided,
                   quit, disk0,
                   opened, written, starts>>

\* lines 328-335: the end marker is searched, the addition extracted
AddEnd ==
    /\ pc = "add_end"
    /\ IF Found(rpAddend, From(filetext, tail))
       THEN /\ head' = MatchStart(rpAddend, From(filetext, tail)) + tail
            /\ addition' = Unwrap(DIFaddOpen, Slice(filetext, tail, head'))
            /\ pc' = "askAdd"
            /\ UNCHANGED exception
       ELSE /\ Crash("AttributeError")
            /\ UNCHANGED <<head, addition>>
    /\ UNCHANGED <<disk, citations, filelist, modifiedfiles, userinput,
                   filenumber, filetorevise, filetext, revisedfiletext, tail,
                   del_start, add_start, deletion, calls, decided, quit,
                   disk0,
                   opened, written, starts>>

\* what a Y or N answer to "Add?" appends to revisedfiletext
AddAnswerSwapped(ans, add) == IF ans \in Yes THEN << >> ELSE add

AddAnswerText(ans, add) == IF ans \in Yes THEN add ELSE << >>

\* lines 336-353: the prompt "Add? Y/N/Q/y/n/q: ", one answer
AskAdd ==
    /\ pc = "askAdd"
    /\ \E ans \in Answers :
        /\ userinput' = ans
        /\ \/ /\ ~isalpha(ans)
              /\ UNCHANGED <<pc, revisedfiletext, decided, quit>>
           \/ /\ isalpha(ans) /\ ans \in Yes \cup No
              /\ revisedfiletext' = revisedfiletext \o AddAnswerText(ans, addition)
              /\ decided' = Append(decided, IF ans \in Yes THEN "Y" ELSE "N")
              /\ pc' = "add_adv"
              /\ UNCHANGED quit
           \/ /\ isalpha(ans) /\ ans \in Quit
              /\ quit' = "add"
              /\ pc' = AfterRevise(modifiedfiles)
              /\ UNCHANGED <<revisedfiletext, decided>>
           \/ /\ isalpha(ans) /\ ans \notin Yes \cup No \cup Quit
              /\ UNCHANGED <<pc, revisedfiletext, decided, quit>>
    /\ UNCHANGED <<disk, citations, filelist, modifiedfiles, filenumber,
                   filetorevise, filetext, head, tail, del_start, add_start,
                   deletion, addition, exception, calls, disk0,
                   opened, written, starts>>

\* lines 354-355
AddAdvance ==
    /\ pc = "add_adv"
    /\ head' = MatchEnd(rpAddend, From(filetext, tail)) + tail
    /\ tail' = head'
    /\ pc' = "scan"
    /\ UNCHANGED <<disk, citations, filelist, modifiedfiles, userinput,
                   filenumber, filetorevise, filetext, revisedfiletext,
                   del_start, add_start, deletion, addition, exception, calls,
                   decided, quit, disk0,
                   opened, written, starts>>

-----------------------------------------------------------------------------
(* The write-back, generate_pdf and save_changes *)

\* a write-back that records nothing
RecordedNothing(mod, f) == mod

\* line 360: self.modifiedfiles += [filetorevise]
\* a record that forgets the files recorded before
RecordedOnly(mod, f) == <<f>>

Recorded(mod, f) == mod \o <<f>>

\* lines 357-362, and the test of the outer loop; after the last file,
\* lines 364-366
WriteBack ==
    /\ pc = "write"
    /\ disk' = [disk EXCEPT ![filetorevise] = revisedfiletext]
    /\ written' = written \o <<filetorevise>>
    /\ modifiedfiles' = Recorded(modifiedfiles, filetorevise)
    /\ filelist' = Remove(filelist, filetorevise)
    /\ pc' = IF Len(filelist') > 0 THEN "pick" ELSE AfterRevise(modifiedfiles')
    /\ UNCHANGED <<citations, userinput, filenumber, filetorevise, filetext,
                   revisedfiletext, head, tail, del_start, add_start, deletion,
                   addition, exception, calls, decided, quit, disk0, opened,
                   starts>>

\* the subprocess calls of generate_pdf after a Y: commandb, the bibtex
\* command, is built and never called; command, pdflatex, is called again
PdfCalls(cit) ==
    IF cit THEN <<"pdflatex", "pdflatex", "pdflatex", "pdflatex">>
    ELSE <<"pdflatex">>

\* generate_pdf, lines 406-438: the prompt "Generate pdf? Y/y/N/n: "
AskPdf ==
    /\ pc = "askPdf"
    /\ \E ans \in Answers :
        /\ userinput' = ans
        /\ \/ /\ ans \in Yes
              /\ calls' = calls \o PdfCalls(citations)
              /\ pc' = AfterPdf(modifiedfiles)
           \/ /\ ans \in No
              /\ pc' = AfterPdf(modifiedfiles)
              /\ UNCHANGED calls
           \/ /\ ans \notin Yes \cup No
              /\ UNCHANGED <<pc, calls>>
    /\ UNCHANGED <<disk, citations, filelist, modifiedfiles, filenumber,
                   filetorevise, filetext, revisedfiletext, head, tail,
                   del_start, add_start, deletion, addition, exception,
                   decided, quit, disk0,
                   opened, written, starts>>

\* save_changes, lines 376-392: the prompt "Commit current changes? Y/y/N/n: "
AskCommit ==
    /\ pc = "askCommit"
    /\ \E ans \in Answers :
        /\ userinput' = ans
        /\ \/ /\ ans \in Yes
              /\ calls' = calls \o <<"git add">>
              /\ pc' = "askMessage"
           \/ /\ ans \in No
              /\ pc' = "exited"
              /\ UNCHANGED calls
           \/ /\ ans \notin Yes \cup No
              /\ UNCHANGED <<pc, calls>>
    /\ UNCHANGED <<disk, citations, filelist, modifiedfiles, filenumber,
                   filetorevise, filetext, revisedfiletext, head, tail,
                   del_start, add_start, deletion, addition, exception,
                   decided, quit, disk0,
                   opened, written, starts>>

\* save_changes, lines 380-386 and 396: any line is a commit message
AskMessage ==
    /\ pc = "askMessage"
    /\ \E ans \in Answers :
        /\ userinput' = ans
        /\ calls' = calls \o <<"git commit">>
        /\ pc' = "exited"
    /\ UNCHANGED <<disk, citations, filelist, modifiedfiles, filenumber,
                   filetorevise, filetext, revisedfiletext, head, tail,
                   del_start, add_start, deletion, addition, exception,
                   decided, quit, disk0,
                   opened, written, starts>>

-----------------------------------------------------------------------------
(* Specifications *)

Next ==
    \/ GetModifiedLatexFiles
    \/ PickFile
    \/ ReadFile
    \/ ScanNext
    \/ DelHead
    \/ DelTail
    \/ DelEnd
    \/ AskDel
    \/ DelAdvance
    \/ AddHead
    \/ AddTail
    \/ AddEnd
    \/ AskAdd
    \/ AddAdvance
    \/ WriteBack
    \/ AskPdf
    \/ AskCommit
    \/ AskMessage

\* a batch run of revise
Spec == Init /\ [][Next]_vars

\* the resolution loop: from a file just picked to the end of its scan
NextResolve ==
    \/ ReadFile
    \/ ScanNext
    \/ DelHead
    \/ DelTail
    \/ DelEnd
    \/ AskDel
    \/ DelAdvance
    \/ AddHead
    \/ AddTail
    \/ AddEnd
    \/ AskAdd
    \/ AddAdvance

SpecResolve == InitResolve /\ [][NextResolve]_vars

\* an answer that the prompt it is given at takes: the run leaves the prompt
RecognisedAnswer ==
    /\ PickFile \/ AskDel \/ AskAdd \/ AskPdf \/ AskCommit
    /\ pc' \notin {pc, "crashed"}

\* the batch run of a process that keeps running, with a user who ends up
\* giving every prompt an answer it takes
SpecFair ==
    /\ Init /\ [][Next]_vars
    /\ WF_vars(Next)
    /\ WF_vars(RecognisedAnswer)

-----------------------------------------------------------------------------
(* Vocabulary of the properties *)

BeginMarkers == {rpAddbegin, rpDelbegin}
EndMarkers == {rpAddend, rpDelend}

HasBeginMarker(s) == \E i \in 1..Len(s) : s[i] \in BeginMarkers

\* markers come in balanced pairs of one kind that do not overlap
RECURSIVE Balanced(_, _)
Balanced(s, open) ==
    IF s = << >> THEN open = "none"
    ELSE LET t == Head(s)
         IN  CASE open = "none" /\ t \in BeginMarkers ->
                      Balanced(Tail(s), IF t = rpAddbegin THEN "add" ELSE "del")
               [] open = "none" /\ t \in EndMarkers -> FALSE
               [] open = "add" /\ t = rpAddend -> Balanced(Tail(s), "none")
               [] open = "del" /\ t = rpDelend -> Balanced(Tail(s), "none")
               [] open # "none" /\ t \in BeginMarkers \cup EndMarkers -> FALSE
               [] OTHER -> Balanced(Tail(s), open)

WellFormed(s) == Balanced(s, "none")

RECURSIVE DropSpaces(_)
DropSpaces(s) ==
    IF s # << >> /\ IsSpace(Head(s)) THEN DropSpaces(Tail(s)) ELSE s

\* index of the first token of s that is lit; s holds one
IndexOf(lit, s) ==
    CHOOSE i \in 1..Len(s) : s[i] = lit /\ \A j \in 1..(i - 1) : s[j] # lit

\* the resolved text of a well-formed buffer, read off its structure: plain
\* text as it is; a marker is its literal and the whitespace after it; a span
\* gives its payload on an accepted addition or a rejected deletion
RECURSIVE Resolved(_, _)
Resolved(s, ds) ==
    IF s = << >> THEN << >>
    ELSE IF Head(s) \in BeginMarkers /\ ds # << >>
         THEN LET isAdd == Head(s) = rpAddbegin
                  endlit == IF isAdd THEN rpAddend ELSE rpDelend
                  body == DropSpaces(Tail(s))
                  n == IndexOf(endlit, body)
                  payload == Unwrap(IF isAdd THEN DIFaddOpen ELSE DIFdelOpen,
                                    SubSeq(body, 1, n - 1))
                  after == DropSpaces(SubSeq(body, n + 1, Len(body)))
                  keep == isAdd <=> (Head(ds) = "Y")
              IN  (IF keep THEN payload ELSE << >>) \o Resolved(after, Tail(ds))
         ELSE <<Head(s)>> \o Resolved(Tail(s), ds)

SpanCount(s) == Cardinality({i \in 1..Len(s) : s[i] \in BeginMarkers})

Prompts == {"pick", "askDel", "askAdd", "askPdf", "askCommit"}

AfterBatch == {"askPdf", "askCommit", "askMessage", "exited"}

InScan == {"scan", "del_head", "del_tail", "del_end", "askDel", "del_adv",
           "add_head", "add_tail", "add_end", "askAdd", "add_adv", "write"}

-----------------------------------------------------------------------------
(* C1 *)

\* C1: when the scan of a well-formed buffer has finished, one decision was
\* taken per span and the text produced is the plain text in order, with the
\* payload of every accepted addition and every rejected deletion and nothing
\* for an accepted deletion or a rejected addition.
C1_OutputIsResolvedText ==
    (pc = "write" /\ WellFormed(filetext)) =>
        /\ Len(decided) = SpanCount(filetext)
        /\ revisedfiletext = Resolved(filetext, decided)

C1_Witness ==
    /\ pc = "write"
    /\ WellFormed(filetext)
    /\ decided = <<"Y", "N", "N">>
    /\ \E i, j \in 1..Len(filetext) :
          i < j /\ filetext[i] = rpDelbegin /\ filetext[j] = rpAddbegin
    /\ revisedfiletext # << >>

-----------------------------------------------------------------------------
(* C2 *)

\* offset of the begin marker of the span the scan is in: the last begin
\* marker before tail
SpanStart ==
    LET before == {i \in 1..Min(tail, Len(filetext)) :
                      filetext[i] \in BeginMarkers}
    IN  (CHOOSE i \in before : \A j \in before : j <= i) - 1

\* C2: when the run has ended after a Q at a span prompt, the file under
\* revision holds (its preamble extension left aside) the text resolved so far
\* followed by the rest of the buffer from the begin marker of the span the Q
\* was answered at.
C2_QuitWritesResolvedPrefix ==
    (pc = "exited" /\ quit \in {"del", "add"}) =>
        StripPreamble(disk[filetorevise]) =
            revisedfiletext \o From(filetext, SpanStart)

-----------------------------------------------------------------------------
(* C3 *)

\* C3: a Q at a file or span prompt leads to the render and commit prompts or
\* to the exit and nowhere else; from then on no file is read or written, no
\* span is scanned or decided and the two file lists stay as they are; and a
\* file that was written back is never read for revision again.
C3_QuitIsTerminal ==
    [][ /\ quit' # "none" => pc' \in AfterBatch
        /\ quit # "none" =>
              UNCHANGED <<disk, filelist, modifiedfiles, filetorevise,
                          filetext, revisedfiletext, head, tail, decided>>
        /\ (pc = "read" /\ pc' = "scan") =>
              filetorevise' \notin Range(modifiedfiles) ]_vars

C3_Witness ==
    /\ quit = "add"
    /\ pc = "exited"
    /\ Len(modifiedfiles) = 1
    /\ Len(filelist) = 1
    /\ decided # << >>
    /\ calls = <<"pdflatex", "git add", "git commit">>

-----------------------------------------------------------------------------
(* C4 *)

\* C4: when the scan of a buffer without begin marker has finished, the text
\* produced is the buffer, no decision was taken and no answer was read; the
\* text produced holds no begin marker either, so a second resolution of it
\* produces it again.
C4_NoMarkersNoChange ==
    (pc = "write" /\ ~HasBeginMarker(filetext)) =>
        /\ revisedfiletext = filetext
        /\ decided = << >>
        /\ userinput = NoInput

C4_Witness ==
    /\ pc = "write"
    /\ ~HasBeginMarker(filetext)
    /\ Len(filetext) = MaxSegs
    /\ \E i \in 1..Len(filetext) : filetext[i] = rpDelend

-----------------------------------------------------------------------------
(* C5 *)

\* the scan has found a begin marker and the buffer holds no end marker of
\* its kind after it
FoundUnmatched ==
    \/ /\ pc = "del_end"
       /\ ~\E i \in (tail + 1)..Len(filetext) : filetext[i] = rpDelend
    \/ /\ pc = "add_end"
       /\ ~\E i \in (tail + 1)..Len(filetext) : filetext[i] = rpAddend

\* C5: when the scan has found a begin marker with no end marker of its kind
\* after it, the next step ends the run with an exception and writes nothing;
\* and whenever a run has ended that way the file under revision is on disk as
\* it was when the run started and is not recorded as modified.
C5_UnmatchedBeginFails ==
    /\ [][ FoundUnmatched =>
              /\ pc' = "crashed"
              /\ exception' = "AttributeError"
              /\ UNCHANGED <<disk, modifiedfiles>> ]_vars
    /\ [](exception = "AttributeError" =>
              /\ pc = "crashed"
              /\ disk[filetorevise] = disk0[filetorevise]
              /\ filetorevise \notin Range(modifiedfiles))

C5_Witness ==
    /\ pc = "crashed"
    /\ exception = "AttributeError"
    /\ disk0[filetorevise] = DocMalformed
    /\ decided # << >>
    /\ Len(modifiedfiles) = 1

-----------------------------------------------------------------------------
(* C6 *)

\* the answers a prompt recognises, as the prompt announces them
Numeral(n) == CASE n = 1 -> <<"1">> [] n = 2 -> <<"2">> [] OTHER -> <<"?">>

Recognised(at, ans) ==
    CASE at = "pick" -> ans \in Quit \cup {Numeral(n) : n \in 1..Len(filelist)}
      [] at \in {"askDel", "askAdd"} -> ans \in Yes \cup No \cup Quit
      [] at \in {"askPdf", "askCommit"} -> ans \in Yes \cup No
      [] OTHER -> TRUE

\* C6: an answer that the prompt does not recognise leaves the run at the same
\* prompt, without an exception, and leaves the output text, the cursor, the
\* file list and the list of modified files as they were.
C6_InvalidAnswerReprompts ==
    [][ (pc \in Prompts /\ ~Recognised(pc, userinput')) =>
            /\ pc' = pc
            /\ exception' = "none"
            /\ UNCHANGED <<revisedfiletext, head, tail, filelist,
                           modifiedfiles>> ]_vars

-----------------------------------------------------------------------------
(* C7, C8, C9 *)

\* C7 as stated: the accepted addition of the scenario gives "A  new  B".
C7_AsStated ==
    (pc = "write" /\ filetext = ScenarioAdd /\ decided = <<"Y">>) =>
        revisedfiletext = <<"A", " ", " ", "new", " ", " ", "B">>

\* C7: the accepted addition of the scenario gives "A new B": the markers are
\* removed with the whitespace after them, the wrapping command is stripped.
C7_AcceptAddition ==
    (pc = "write" /\ filetext = ScenarioAdd /\ decided = <<"Y">>) =>
        revisedfiletext = <<"A", " ", "new", " ", "B">>

C7_Witness == pc = "write" /\ filetext = ScenarioAdd /\ decided = <<"Y">>

\* C8 as stated: the rejected deletion of the scenario gives "A  old  B".
C8_AsStated ==
    (pc = "write" /\ filetext = ScenarioDel /\ decided = <<"N">>) =>
        revisedfiletext = <<"A", " ", " ", "old", " ", " ", "B">>

\* C8: the rejected deletion of the scenario gives "A old B": the deletion is
\* undone, its payload restored without the wrapping command.
C8_RejectDeletion ==
    (pc = "write" /\ filetext = ScenarioDel /\ decided = <<"N">>) =>
        revisedfiletext = <<"A", " ", "old", " ", "B">>

C8_Witness == pc = "write" /\ filetext = ScenarioDel /\ decided = <<"N">>

\* C9 as stated: the accepted deletion of the scenario gives "A  B".
C9_AsStated ==
    (pc = "write" /\ filetext = ScenarioDel /\ decided = <<"Y">>) =>
        revisedfiletext = <<"A", " ", " ", "B">>

\* C9: the accepted deletion of the scenario gives "A B": the payload is
\* dropped, and the end marker is removed with the whitespace after it.
C9_AcceptDeletion ==
    (pc = "write" /\ filetext = ScenarioDel /\ decided = <<"Y">>) =>
        revisedfiletext = <<"A", " ", "B">>

C9_Witness == pc = "write" /\ filetext = ScenarioDel /\ decided = <<"Y">>

-----------------------------------------------------------------------------
(* C10 *)

\* the files that hold a begin marker once the preamble extension is removed
Annotated == {f \in Files : HasBeginMarker(StripPreamble(disk0[f]))}

\* C10: once the candidate list is built, the files listed or already revised
\* are exactly the files that hold a begin marker after preamble stripping,
\* and the file under revision is one of them.
C10_CandidatesAreAnnotated ==
    pc # "start" =>
        /\ Range(filelist) \cup Range(modifiedfiles) = Annotated
        /\ pc \in InScan => filetorevise \in Annotated

C10_Witness ==
    /\ pc = "scan"
    /\ filelist = <<2>>
    /\ disk0[1] = DocPreambleOnly

-----------------------------------------------------------------------------
(* C11 *)

\* C11 as stated: the file under revision is the first of the files still
\* listed, so the files are revised in the order of the list.
C11_AsStated == pc \in InScan => filetorevise = Head(filelist)

\* C11: the files are revised one at a time, in the order they are picked at
\* the file prompt: the files written and the files recorded as modified are
\* the files opened, in the order they were opened, but for the file under
\* revision; when the file prompt is up or a file is about to be read, every
\* file opened so far has been written back and recorded; a file whose text
\* on disk has changed is recorded.
C11_OneFileAtATime ==
    /\ written = modifiedfiles
    /\ \/ opened = modifiedfiles
       \/ /\ opened = modifiedfiles \o <<filetorevise>>
          /\ pc \notin {"start", "pick", "read"}
    /\ pc \in {"pick", "read"} => opened = modifiedfiles
    /\ \A f \in Files : disk[f] # disk0[f] => f \in Range(modifiedfiles)

C11_Witness ==
    /\ pc = "askDel"
    /\ opened = <<2, 1>>
    /\ modifiedfiles = <<2>>
    /\ disk[2] # disk0[2]

-----------------------------------------------------------------------------
(* C12 *)

\* C12 as stated: a run that had candidate files ends through the commit
\* step only, so the render and the commit step have both been offered.
C12_AsStated ==
    [][ (pc' = "exited" /\ pc # "exited" /\ Annotated # {}) =>
            pc \in {"askCommit", "askMessage"} ]_vars

GitCalls == {"git add", "git commit"}

\* C12: after the last file or a Q the run goes to the render prompt when a
\* file was modified and exits when none was; the render prompt is reached
\* from nowhere else and is followed by the commit prompt, which is reached
\* from nowhere else and is followed by the exit; pdflatex runs only on a Y at
\* the render prompt and before any git call, git only on a Y at the commit
\* prompt, each at most once; an N runs nothing and moves on.
C12_RenderThenCommit ==
    [][ /\ ((quit = "none" /\ quit' # "none") \/ (pc = "write" /\ filelist' = << >>))
              => pc' = IF modifiedfiles' # << >> THEN "askPdf" ELSE "exited"
        /\ (pc' = "askPdf" /\ pc # "askPdf") =>
              /\ pc \in {"pick", "askDel", "askAdd", "write"}
              /\ quit' # "none" \/ filelist' = << >>
        /\ (pc = "askPdf" /\ pc' # pc) => pc' = "askCommit"
        /\ (pc' = "askCommit" /\ pc # "askCommit") => pc = "askPdf"
        /\ (pc = "askCommit" /\ pc' # pc) => pc' \in {"askMessage", "exited"}
        /\ (pc' = "exited" /\ pc # "exited") =>
              pc \in {"askCommit", "askMessage"} \/ modifiedfiles = << >>
        /\ calls' # calls =>
              \/ /\ pc = "askPdf" /\ userinput' \in Yes
                 /\ calls = << >>
                 /\ Range(calls') = {"pdflatex"}
              \/ /\ pc = "askCommit" /\ userinput' \in Yes
                 /\ Range(calls) \cap GitCalls = {}
                 /\ calls' = calls \o <<"git add">>
              \/ /\ pc = "askMessage"
                 /\ calls' = calls \o <<"git commit">>
                 /\ "git commit" \notin Range(calls)
        /\ (pc \in {"askPdf", "askCommit"} /\ userinput' \in No) =>
              calls' = calls /\ pc' # pc ]_vars

C12_Witness ==
    /\ pc = "exited"
    /\ quit = "none"
    /\ Len(modifiedfiles) = 2
    /\ calls = <<"pdflatex", "git add", "git commit">>

-----------------------------------------------------------------------------
(* C13 *)

NoDuplicates(l) == \A i, j \in 1..Len(l) : l[i] = l[j] => i = j

-----------------------------------------------------------------------------
(* C14 *)

\* C14: modifiedfiles changes only by appending the file that the same step
\* writes to disk, and every write to disk appends; its entries are candidate
\* files and none of them is in the working list.
C14_ModifiedSetAppendOnly ==
    /\ [][ /\ modifiedfiles' # modifiedfiles =>
                /\ modifiedfiles' = modifiedfiles \o <<filetorevise>>
                /\ disk' = [disk EXCEPT ![filetorevise] = revisedfiletext]
                /\ written' = written \o <<filetorevise>>
           /\ (disk' # disk \/ written' # written) =>
                modifiedfiles' # modifiedfiles ]_vars
    /\ [](/\ Range(modifiedfiles) \subseteq Annotated
          /\ Range(modifiedfiles) \cap Range(filelist) = {})

C14_Witness ==
    /\ modifiedfiles = <<1, 2>>
    /\ filelist = << >>
    /\ pc = "askPdf"
    /\ disk[1] # disk0[1]
    /\ disk[2] # disk0[2]

-----------------------------------------------------------------------------
(* C15 *)

\* C15: when no file holds a begin marker outside its preamble, the run has
\* exited as soon as the candidate list is built: no answer was read, no file
\* was opened or written, no command was called and no exception was raised.
C15_EmptyCandidateSet ==
    (Annotated = {} /\ pc # "start") =>
        /\ pc = "exited"
        /\ filelist = << >>
        /\ userinput = NoInput
        /\ decided = << >>
        /\ opened = << >>
        /\ written = << >>
        /\ modifiedfiles = << >>
        /\ disk = disk0
        /\ calls = << >>
        /\ exception = "none"

C15_Witness ==
    /\ Annotated = {}
    /\ pc = "exited"
    /\ disk[1] = DocPreambleOnly
    /\ disk[2] = DocPlain

-----------------------------------------------------------------------------
(* C16 *)

\* C16: a failed search for an end marker ends the resolution of the current
\* file only: the file is not recorded as modified and keeps its text, and
\* the run goes on, at the file prompt or at the render and commit prompts.
C16_ScanErrorAbortsFileOnly ==
    exception = "AttributeError" =>
        /\ filetorevise \notin Range(modifiedfiles)
        /\ disk[filetorevise] = disk0[filetorevise]
        /\ pc \in {"pick"} \cup AfterBatch
        /\ pc = "exited" => (modifiedfiles = << >> \/ calls # << >> \/ userinput \in No)

-----------------------------------------------------------------------------
(* C17 *)

RenderCalls == SelectSeq(calls, LAMBDA c : c \in {"pdflatex", "bibtex"})

\* C17: with the citations option, a confirmed rendering calls pdflatex once,
\* then bibtex once, then pdflatex twice.
C17_CitationsThreePasses ==
    (citations /\ RenderCalls # << >>) =>
        RenderCalls = <<"pdflatex", "bibtex", "pdflatex", "pdflatex">>

-----------------------------------------------------------------------------
(* C18 *)

\* C18 as stated: a Q at the file prompt does not end the run, and a Q at the
\* render or the commit prompt does.
C18_AsStated ==
    [][ /\ (pc = "pick" /\ userinput' \in Quit) => pc' = "pick"
        /\ (pc \in {"askPdf", "askCommit"} /\ userinput' \in Quit) =>
              pc' = "exited" ]_vars

\* C18: a Q at the file prompt or at a span prompt ends the revision, with no
\* write to disk: the run goes to the render prompt when a file was modified
\* and exits when none was; nothing else sets quit; a Q at the render or the
\* commit prompt is asked again and calls nothing, and a Q at the message
\* prompt is the commit message; the revision is left for the prompts after
\* the batch or the exit only by a Q or when the last file is written.
C18_QuitPrompts ==
    [][ /\ (pc \in {"pick", "askDel", "askAdd"} /\ userinput' \in Quit) =>
              /\ quit = "none" /\ quit' # "none"
              /\ pc' = IF modifiedfiles # << >> THEN "askPdf" ELSE "exited"
              /\ disk' = disk
              /\ modifiedfiles' = modifiedfiles
        /\ quit' # quit =>
              /\ userinput' \in Quit
              /\ pc \in {"pick", "askDel", "askAdd"}
        /\ (pc \in {"askPdf", "askCommit"} /\ userinput' \in Quit) =>
              /\ pc' = pc
              /\ calls' = calls
        /\ (pc = "askMessage" /\ userinput' \in Quit) =>
              /\ calls' = calls \o <<"git commit">>
              /\ pc' = "exited"
        /\ (pc \in {"pick"} \cup InScan /\ pc' \in AfterBatch) =>
              \/ quit' # quit
              \/ pc = "write" /\ filelist' = << >> /\ quit = "none" ]_vars

C18_Witness ==
    /\ pc = "askCommit"
    /\ userinput \in Quit
    /\ quit = "pick"
    /\ modifiedfiles = <<1>>
    /\ Range(filelist) = {2}

-----------------------------------------------------------------------------
(* C19 *)

\* no begin marker at the offsets a .. b - 1 of filetext
NoBeginIn(a, b) == \A i \in (a + 1)..b : filetext[i] \notin BeginMarkers

\* C19: on a well-formed buffer the scan ends exactly when no begin marker is
\* left at or after head; otherwise it takes the branch of the first begin
\* marker at or after head, and that branch puts head on this marker; the
\* offsets of the begin markers of the spans found are strictly increasing.
C19_DocumentOrder ==
    /\ [][ WellFormed(filetext) =>
             /\ pc = "scan" =>
                  /\ pc' = "write" <=> NoBeginIn(head, Len(filetext))
                  /\ pc' = "del_head" <=>
                        \E i \in head..(Len(filetext) - 1) :
                            filetext[i + 1] = rpDelbegin /\ NoBeginIn(head, i)
                  /\ pc' = "add_head" <=>
                        \E i \in head..(Len(filetext) - 1) :
                            filetext[i + 1] = rpAddbegin /\ NoBeginIn(head, i)
             /\ pc \in {"del_head", "add_head"} =>
                  /\ head <= head' /\ head' < Len(filetext)
                  /\ filetext[head' + 1] =
                        IF pc = "del_head" THEN rpDelbegin ELSE rpAddbegin
                  /\ NoBeginIn(head, head')
                  /\ starts' = starts \o <<head'>> ]_vars
    /\ [](WellFormed(filetext) =>
             /\ \A i, j \in 1..Len(starts) : i < j => starts[i] < starts[j]
             /\ pc = "write" => Len(starts) = SpanCount(filetext))

C19_Witness ==
    /\ WellFormed(filetext)
    /\ pc = "write"
    /\ Len(starts) = 2
    /\ filetext[starts[1] + 1] = rpAddbegin
    /\ filetext[starts[2] + 1] = rpDelbegin
    /\ starts[1] > 0

-----------------------------------------------------------------------------
(* C20 *)

\* C20 as stated: 0 <= tail <= head <= len(filetext) in every state of the
\* resolution loop.
C20_AsStated ==
    pc \in InScan => (0 <= tail /\ tail <= head /\ head <= Len(filetext))

\* C20: 0 <= tail <= head <= len(filetext) in every state of the loop but the
\* one between the assignment to tail after the begin marker and the
\* assignment to head at the end marker, where head is on the begin marker
\* and tail is past it: 0 <= head < tail <= len(filetext).
C20_CursorBounds ==
    /\ pc \in InScan \ {"del_end", "add_end"} =>
          (0 <= tail /\ tail <= head /\ head <= Len(filetext))
    /\ pc \in {"del_end", "add_end"} =>
          (0 <= head /\ head < tail /\ tail <= Len(filetext))

C20_Witness ==
    /\ pc = "add_end"
    /\ Len(starts) = 2
    /\ head = starts[2]
    /\ head < tail

-----------------------------------------------------------------------------
(* C21 *)

OpenBraces == {"{", DIFaddOpen, DIFdelOpen}

\* every closing brace of s closes a brace opened in s, depth braces being
\* open before s, and none stays open
RECURSIVE BracesBalanced(_, _)
BracesBalanced(s, depth) ==
    IF s = << >> THEN depth = 0
    ELSE IF Head(s) \in OpenBraces THEN BracesBalanced(Tail(s), depth + 1)
    ELSE IF Head(s) = CloseBrace
         THEN depth > 0 /\ BracesBalanced(Tail(s), depth - 1)
    ELSE BracesBalanced(Tail(s), depth)

\* the text between the markers of the span at the prompt
SpanText == Slice(filetext, tail, head)

\* the span at the prompt is one wrapping command around a balanced text
IsWrapped(open) ==
    /\ Len(SpanText) >= 2
    /\ SpanText[1] = open
    /\ SpanText[Len(SpanText)] = CloseBrace
    /\ BracesBalanced(SubSeq(SpanText, 2, Len(SpanText) - 1), 0)

\* C21: when the text between the markers of a span is \DIFadd{w} or
\* \DIFdel{w}, w with balanced braces, the payload shown at the prompt is w.
C21_PayloadIsWrappedText ==
    /\ (pc = "askAdd" /\ IsWrapped(DIFaddOpen)) =>
          addition = SubSeq(SpanText, 2, Len(SpanText) - 1)
    /\ (pc = "askDel" /\ IsWrapped(DIFdelOpen)) =>
          deletion = SubSeq(SpanText, 2, Len(SpanText) - 1)

-----------------------------------------------------------------------------
(* C22 *)

\* index of the first end comment of s that a newline follows, 0 when there
\* is none
FirstPreambleEnd(s) ==
    LET ends == {i \in 1..(Len(s) - 1) :
                    s[i] = PreambleEnd /\ s[i + 1] = Newline}
    IN  IF ends = {} THEN 0 ELSE CHOOSE i \in ends : \A j \in ends : i <= j

\* s without its preamble-extension blocks, each from a start comment through
\* the next end comment and its newline
RECURSIVE WithoutBlocks(_)
WithoutBlocks(s) ==
    IF s = << >> THEN << >>
    ELSE IF Head(s) = PreambleStart /\ FirstPreambleEnd(s) > 0
         THEN WithoutBlocks(From(s, FirstPreambleEnd(s) + 1))
         ELSE <<Head(s)>> \o WithoutBlocks(Tail(s))

\* C22: the buffer that is scanned is the text of the file without its
\* preamble-extension blocks, all other text being kept in place.
C22_OnlyBlocksRemoved ==
    pc \in InScan => filetext = WithoutBlocks(disk0[filetorevise])

-----------------------------------------------------------------------------
(* C23 *)

\* C23: the disk changes only in the step that follows the end of a scan, and
\* only in the file under revision, which gets the revised text of a scan
\* that left no begin marker and took a decision for every span (on a
\* well-formed buffer: the resolved text); so every file holds its original
\* text or, once written, a text with no begin marker, whatever the state.
C23_WritesAllOrNothing ==
    /\ [][ disk' # disk =>
             /\ pc = "write"
             /\ disk' = [disk EXCEPT ![filetorevise] = revisedfiletext]
             /\ disk[filetorevise] = disk0[filetorevise]
             /\ ~HasBeginMarker(From(filetext, head))
             /\ Len(decided) = SpanCount(filetext)
             /\ WellFormed(filetext) =>
                   revisedfiletext = Resolved(filetext, decided) ]_vars
    /\ [](\A f \in Files :
             \/ disk[f] = disk0[f] /\ f \notin Range(written)
             \/ /\ f \in Range(written)
                /\ ~HasBeginMarker(disk[f])
                /\ pc \in InScan => f # filetorevise)

C23_Witness ==
    /\ pc = "exited"
    /\ quit = "add"
    /\ written = <<1>>
    /\ filetorevise = 2
    /\ decided # << >>
    /\ revisedfiletext # << >>
    /\ disk[2] = disk0[2]
    /\ disk[1] # disk0[1]

-----------------------------------------------------------------------------
(* C24 *)

AllWellFormed == \A f \in Files : WellFormed(StripPreamble(disk0[f]))

\* every decision moves both cursors forward, a scan ends after one decision
\* for each span of the buffer, and a written file leaves the working list
C24_Progress ==
    [][ AllWellFormed =>
          /\ pc \in {"del_adv", "add_adv"} =>
                /\ tail' > tail /\ head' > head
                /\ Len(decided) <= SpanCount(filetext)
          /\ pc = "write" =>
                /\ Len(decided) = SpanCount(filetext)
                /\ Len(filelist') = Len(filelist) - 1 ]_vars

\* C24: when all files are well-formed, the process keeps running and the
\* user ends up giving every prompt an answer it takes, every decision moves
\* the cursors forward, a file with n spans is written after n decisions and
\* leaves the working list, and the run reaches the exit of save_changes.
C24_RunTerminates ==
    /\ C24_Progress
    /\ AllWellFormed => <>(pc = "exited")

\* the same run reaches the exit of save_changes or has stopped on the
\* ValueError of the file prompt
C24_TerminatesOrValueError ==
    AllWellFormed => <>(pc = "exited" \/ exception = "ValueError")

-----------------------------------------------------------------------------
(* C25 *)

\* the offset after the span that starts at offset a of filetext: after its
\* end marker and the whitespace that follows it
SpanEnd(a) ==
    LET endlit == IF filetext[a + 1] = rpAddbegin THEN rpAddend ELSE rpDelend
        b == a + 1 + SpaceRun(filetext, a + 1)
        i == CHOOSE k \in (b + 1)..Len(filetext) :
                 /\ filetext[k] = endlit
                 /\ \A j \in (b + 1)..(k - 1) : filetext[j] # endlit
    IN  i + SpaceRun(filetext, i)

\* the absolute offset of the first literal lit at or after offset a
FirstAt(lit, a) ==
    (CHOOSE k \in (a + 1)..Len(filetext) :
         filetext[k] = lit /\ \A j \in (a + 1)..(k - 1) : filetext[j] # lit) - 1

\* C25: at the loop test head = tail, both 0 before the first span and the
\* offset after the last span found otherwise; the branch taken then puts
\* head on the absolute offset of the next begin marker of its kind, and the
\* end of the scan appends the buffer from tail on.
C25_LoopStart ==
    /\ [](pc = "scan" =>
            /\ head = tail
            /\ head = IF starts = << >> THEN 0
                      ELSE SpanEnd(starts[Len(starts)]))
    /\ [][ /\ pc = "del_head" => head' = FirstAt(rpDelbegin, tail)
           /\ pc = "add_head" => head' = FirstAt(rpAddbegin, tail)
           /\ (pc = "scan" /\ pc' = "write") =>
                 revisedfiletext' = revisedfiletext \o From(filetext, tail) ]_vars

C25_Witness ==
    /\ pc = "scan"
    /\ Len(starts) = 2
    /\ head = tail
    /\ starts[2] < head
    /\ head < Len(filetext)
    /\ HasBeginMarker(From(filetext, head))

====
